---- MODULE Spec2Model ----
(***************************************************************************)
(* Model of the login service of server.js: the users table, the session   *)
(* middleware with its in-memory store, the four API handlers (register,   *)
(* login, logout, profile), one action per stretch of handler code between *)
(* two awaits, and the port search of the server startup.                  *)
(***************************************************************************)
EXTENDS Integers, Sequences, FiniteSets, TLC

(* ------------------------------ bounds -------------------------------- *)
\* number of request slots, i.e. of requests that can be in flight together
MaxReq == 2
\* number of requests that clients holding no cookie send in one run
MaxArrivals == 3
\* number of requests that clients holding cookies send in one run
MaxSessionArrivals == 4
\* number of requests sent in one run in which clients holding cookies
\* both register and log in
MaxAccountArrivals == 2
\* the clock stops at MaxTime
MaxTime == 2

(* --------------------------- program constants ------------------------ *)
\* cookie.maxAge (24 hours), in clock units
TTL == 2
UsernameMin == 3
UsernameMax == 50
PasswordMin == 6
\* VARCHAR(100) of the email column
EmailColumn == 100
\* parseInt(process.env.PORT) || 3000
DefaultPort == 3000
\* parseInt(process.env.FALLBACK_PORT) || 3001
FALLBACK_PORT == 3001
\* the 10 of startPort < FALLBACK_PORT + 10
RetryMargin == 10

(* ------------------------------ strings ------------------------------- *)
\* A string is a sequence of one-character strings. A field that is missing
\* from the request body (undefined) is the one-element sequence Undefined,
\* which no string of characters equals.
Undefined == <<"undefined">>

Repeat(ch, n) == [i \in 1..n |-> ch]

LowerOf(ch) ==
  CASE ch = "A" -> "a"
    [] ch = "B" -> "b"
    [] ch = "C" -> "c"
    [] ch = "X" -> "x"
    [] OTHER -> ch

\* (a conversion that leaves every letter as it is)
KeepCase(s) == s

\* String.prototype.toLowerCase and SQL LOWER, on ASCII letters
toLowerCase(s) == [i \in 1..Len(s) |-> LowerOf(s[i])]

\* (a test that takes only a missing field for falsy, not an empty one)
MissingOnly(v) == v = Undefined

\* !value of JavaScript for a body field: undefined and "" are falsy
Falsy(v) == v = Undefined \/ v = <<>>

Whitespace == {" "}

\* /^[^\s@]+@[^\s@]+\.[^\s@]+$/ : one "@", not first; a "." after it that is
\* neither next to the "@" nor last; no whitespace
emailRegexTest(e) ==
  /\ \A i \in 1..Len(e) : e[i] \notin Whitespace
  /\ \E i \in 2..Len(e) :
       /\ e[i] = "@"
       /\ \A k \in 1..Len(e) : e[k] = "@" => k = i
       /\ \E j \in (i + 2)..(Len(e) - 1) : e[j] = "."

(* ------------------------------ bcrypt -------------------------------- *)
\* bcrypt.hash(password, saltRounds): an opaque value, one per password
bcryptHash(p) == [bcrypt |-> p]
\* (a comparison that accepts every password)
AnyPassword(p, h) == TRUE

\* bcrypt.compare(password, stored)
bcryptCompare(p, h) == h = bcryptHash(p)

(* ------------------------------- state -------------------------------- *)
VARIABLES
  users,     \* rows of the users table
  nextId,    \* the SERIAL sequence of users.id
  sessions,  \* the session store: session id -> [data, expires]
  nextSid,   \* the next session id the middleware generates
  arrivals,  \* the number of requests received so far
  now,       \* the clock
  reqs,      \* request slots: the requests in flight and the last answered
  finder     \* findAvailablePort: the call chain startServer awaits

vars == <<users, nextId, sessions, nextSid, arrivals, now, reqs, finder>>

Slots == 1..MaxReq
Null == -1

\* a session without properties, as the middleware generates it
EmptyData == [userId |-> 0, username |-> Undefined, loginTime |-> Null]

NoRow == [id |-> 0, username |-> Undefined, email |-> Undefined,
          password |-> bcryptHash(Undefined), last_login |-> Null,
          is_active |-> FALSE]
NoBody == [username |-> Undefined, email |-> Undefined, password |-> Undefined]
NoRes == [status |-> 0, error |-> "", message |-> "", userId |-> 0,
          username |-> Undefined, email |-> Undefined,
          lastLogin |-> Null, total_users |-> 0]

\* res.status(status).json({ error })
JsonError(status, error) == [NoRes EXCEPT !.status = status, !.error = error]
\* res.status(status).json({ message, user: { id, username, email, ... } })
JsonUser(status, message, row) ==
  [NoRes EXCEPT !.status = status, !.message = message, !.userId = row.id,
                !.username = row.username, !.email = row.email]

IdleReq ==
  [kind |-> "none", pc |-> "idle", body |-> NoBody,
   cookieId |-> 0, sessionID |-> 0, hasSession |-> FALSE,
   session |-> EmptyData, saved |-> EmptyData,
   hashed |-> bcryptHash(Undefined), user |-> NoRow, res |-> NoRes,
   \* history, read by the properties only
   why |-> "", before |-> {}, concurrent |-> {},
   takenU |-> FALSE, takenE |-> FALSE]

(* --------------------------- session store ---------------------------- *)
\* MemoryStore getSession: the stored session unless it has expired
StoreHas(store, sid, t) == sid \in DOMAIN store /\ store[sid].expires > t

Without(store, sid) == [s \in DOMAIN store \ {sid} |-> store[s]]

\* MemoryStore getSession deletes the session it finds expired
StoreAfterGet(store, sid, t) ==
  IF sid \in DOMAIN store /\ ~(store[sid].expires > t)
  THEN Without(store, sid) ELSE store

\* MemoryStore.set
StoreSet(store, sid, data, t) ==
  [s \in DOMAIN store \cup {sid} |->
     IF s = sid THEN [data |-> data, expires |-> t + TTL] ELSE store[s]]

\* (a store whose touch leaves the expiry alone, as without rolling)
StoreTouchKeepsExpiry(store, sid, t) == StoreAfterGet(store, sid, t)

\* MemoryStore.touch: the stored session keeps its data and takes the cookie
\* (the expiry) of the request's session; nothing when it is gone
StoreTouch(store, sid, t) ==
  IF StoreHas(store, sid, t)
  THEN [store EXCEPT ![sid].expires = t + TTL]
  ELSE StoreAfterGet(store, sid, t)

\* (a destroy that leaves the entry in the store)
StoreDestroyKeepsEntry(store, sid) == store

\* (a destroy that empties the store)
StoreDestroyAll(store, sid) == << >>

\* MemoryStore.destroy
StoreDestroy(store, sid) == Without(store, sid)

\* (a middleware that also stores a new session nobody wrote to, as with
\* saveUninitialized: true)
EndResponseSaveUninitialized(store, q, t) ==
  IF ~q.hasSession THEN store
  ELSE IF q.session # q.saved \/ q.cookieId # q.sessionID
  THEN StoreSet(store, q.sessionID, q.session, t)
  ELSE StoreTouch(store, q.sessionID, t)

\* the response ends: the middleware saves a session whose data changed
\* since it was loaded or generated, touches (rolling) a loaded one, and
\* does nothing for a new session nobody wrote to or a destroyed one
EndResponse(store, q, t) ==
  IF ~q.hasSession THEN store
  ELSE IF q.session # q.saved THEN StoreSet(store, q.sessionID, q.session, t)
  ELSE IF q.cookieId = q.sessionID THEN StoreTouch(store, q.sessionID, t)
  ELSE store

(* ------------------------- request bookkeeping ------------------------ *)
InFlight(q) == q.pc \notin {"idle", "done"}

\* the session middleware on an arriving request: the session of the cookie
\* if the store has it, else a generated one under a new id
Arrive(r, kind, body, cookie) ==
  LET found == cookie # 0 /\ StoreHas(sessions, cookie, now)
      data == IF found THEN sessions[cookie].data ELSE EmptyData
  IN [IdleReq EXCEPT
        !.kind = kind, !.pc = "handler", !.body = body, !.cookieId = cookie,
        !.sessionID = IF found THEN cookie ELSE nextSid,
        !.hasSession = TRUE, !.session = data, !.saved = data,
        !.before = {q \in Slots \ {r} : reqs[q].pc = "done"},
        !.concurrent = {q \in Slots \ {r} : InFlight(reqs[q])}]

\* slot r takes a new request: the other slots forget the one it held
Forget(q, r) ==
  [q EXCEPT !.before = @ \ {r}, !.concurrent = @ \ {r}]

\* a request takes the place of an answered one, or the first free slot
CanArrive(r, cookie) ==
  /\ ~InFlight(reqs[r])
  /\ reqs[r].pc = "idle" => \A x \in Slots : reqs[x].pc = "idle" => r <= x
  /\ cookie \in 0..(nextSid - 1)

\* the state after the middleware loaded the session and the handler ran up
\* to its first await (q: the request then; store: the session store then)
Arrived(r, cookie, q, store) ==
  /\ reqs' = [x \in Slots |-> IF x = r THEN q ELSE Forget(reqs[x], r)]
  /\ sessions' = store
  /\ nextSid' = IF q.sessionID = cookie THEN nextSid ELSE nextSid + 1
  /\ arrivals' = arrivals + 1
  /\ UNCHANGED <<users, nextId, now, finder>>

\* the handler sends its response: the request is answered and the
\* middleware commits the session
\* (what is left of an answered request is what the client saw of it)
Respond(q, res, why) ==
  [q EXCEPT !.pc = "done", !.res = res, !.why = why,
            !.hasSession = FALSE, !.session = EmptyData, !.saved = EmptyData,
            !.hashed = IdleReq.hashed, !.user = NoRow]

Answer(r, q, res, why) ==
  /\ reqs' = [reqs EXCEPT ![r] = Respond(q, res, why)]
  /\ sessions' = EndResponse(sessions, q, now)

(* ----------------------------- register ------------------------------- *)
\* (the validation with the email shape tested before the username length)
ValidationEmailFirst(b) ==
  IF Falsy(b.username) \/ Falsy(b.email) \/ Falsy(b.password)
  THEN "All fields are required"
  ELSE IF ~emailRegexTest(b.email)
  THEN "Please provide a valid email address"
  ELSE IF Len(b.username) < UsernameMin \/ Len(b.username) > UsernameMax
  THEN "Username must be between 3 and 50 characters"
  ELSE IF Len(b.password) < PasswordMin
  THEN "Password must be at least 6 characters long"
  ELSE ""

\* the input validation of /api/register: the error message, "" if none
RegisterValidation(b) ==
  IF Falsy(b.username) \/ Falsy(b.email) \/ Falsy(b.password)
  THEN "All fields are required"
  ELSE IF Len(b.username) < UsernameMin \/ Len(b.username) > UsernameMax
  THEN "Username must be between 3 and 50 characters"
  ELSE IF ~emailRegexTest(b.email)
  THEN "Please provide a valid email address"
  ELSE IF Len(b.password) < PasswordMin
  THEN "Password must be at least 6 characters long"
  ELSE ""

RegisterBegin(r, body, cookie) ==
  /\ CanArrive(r, cookie)
  /\ LET q == Arrive(r, "register", body, cookie)
         store == StoreAfterGet(sessions, cookie, now)
         err == RegisterValidation(body)
     IN IF err # ""
        THEN Arrived(r, cookie, Respond(q, JsonError(400, err), "validation"),
                     EndResponse(store, q, now))
        ELSE Arrived(r, cookie, [q EXCEPT !.pc = "select"], store)

\* SELECT id, username, email FROM users WHERE username = $1 OR email = $2
ExistingUser(table, username, email) ==
  {a \in table : a.username = toLowerCase(username)
                 \/ a.email = toLowerCase(email)}

ConflictField(existing, username) ==
  IF toLowerCase(existing.username) = toLowerCase(username)
  THEN "username" ELSE "email"

ConflictMessage(field) ==
  IF field = "username" THEN "This username is already registered"
  ELSE "This email is already registered"

RegisterSelect(r) ==
  /\ reqs[r].kind = "register" /\ reqs[r].pc = "select"
  /\ UNCHANGED <<users, nextId, nextSid, arrivals, now, finder>>
  /\ LET q == reqs[r]
         rows == ExistingUser(users, q.body.username, q.body.email)
         seen == [q EXCEPT
                    !.takenU = \E a \in users :
                       toLowerCase(a.username) = toLowerCase(q.body.username),
                    !.takenE = \E a \in users :
                       toLowerCase(a.email) = toLowerCase(q.body.email)]
     IN \E ok \in BOOLEAN :
          IF ~ok
          THEN Answer(r, q, JsonError(500,
                 "Registration failed due to server error"), "store_error")
          ELSE IF rows # {}
          THEN \E existing \in rows :
                 Answer(r, seen,
                   JsonError(400, ConflictMessage(
                     ConflictField(existing, q.body.username))),
                   "conflict_select")
          ELSE /\ reqs' = [reqs EXCEPT ![r].pc = "hash"]
               /\ UNCHANGED sessions

RegisterHash(r) ==
  /\ reqs[r].kind = "register" /\ reqs[r].pc = "hash"
  /\ reqs' = [reqs EXCEPT ![r].pc = "insert",
                          ![r].hashed = bcryptHash(reqs[r].body.password)]
  /\ UNCHANGED <<users, nextId, sessions, nextSid, arrivals, now, finder>>

\* (a users table declared without its UNIQUE constraints)
NoUniqueConstraint(table, username, email) == FALSE

\* the UNIQUE constraints of the username and email columns
UniqueViolation(table, username, email) ==
  \E a \in table : a.username = username \/ a.email = email

\* the VARCHAR(50) and VARCHAR(100) columns
TooLong(username, email) ==
  Len(username) > UsernameMax \/ Len(email) > EmailColumn

RegisterInsert(r) ==
  /\ reqs[r].kind = "register" /\ reqs[r].pc = "insert"
  /\ UNCHANGED <<nextSid, arrivals, now, finder>>
  /\ LET q == reqs[r]
         username == toLowerCase(q.body.username)
         email == toLowerCase(q.body.email)
         newUser == [id |-> nextId, username |-> username, email |-> email,
                     password |-> q.hashed, last_login |-> Null,
                     is_active |-> TRUE]
         seen == [q EXCEPT
                    !.takenU = \E a \in users :
                       toLowerCase(a.username) = username,
                    !.takenE = \E a \in users :
                       toLowerCase(a.email) = email]
         session == [userId |-> newUser.id, username |-> newUser.username,
                     loginTime |-> now]
     IN \E ok \in BOOLEAN :
          IF ~ok \/ TooLong(username, email)
          THEN /\ Answer(r, q, JsonError(500,
                    "Registration failed due to server error"), "store_error")
               /\ UNCHANGED <<users, nextId>>
          ELSE IF UniqueViolation(users, username, email)
          THEN /\ Answer(r, seen, JsonError(400,
                    "Username or email already exists"), "conflict_insert")
               /\ UNCHANGED <<users, nextId>>
          ELSE /\ users' = users \cup {newUser}
               /\ nextId' = nextId + 1
               /\ Answer(r, [q EXCEPT !.session = session],
                         JsonUser(201, "Registration successful", newUser),
                         "ok")

(* ------------------------------- login -------------------------------- *)
LoginBegin(r, body, cookie) ==
  /\ CanArrive(r, cookie)
  /\ LET q == Arrive(r, "login", body, cookie)
         store == StoreAfterGet(sessions, cookie, now)
     IN IF Falsy(body.username) \/ Falsy(body.password)
        THEN Arrived(r, cookie,
               Respond(q, JsonError(400, "Username and password are required"),
                       "missing"),
               EndResponse(store, q, now))
        ELSE Arrived(r, cookie, [q EXCEPT !.pc = "select"], store)

\* (the lookup without LOWER on either side)
ActiveByExactUsername(table, username) ==
  {a \in table : a.username = username /\ a.is_active}

\* SELECT ... FROM users WHERE LOWER(username) = LOWER($1) AND is_active = true
ActiveByUsername(table, username) ==
  {a \in table : toLowerCase(a.username) = toLowerCase(username)
                 /\ a.is_active}

\* (a wrong password answered in words of its own)
WrongPasswordOnly == JsonError(401, "Invalid password")

\* the answer of the login handler when no row matches
UserNotFound == JsonError(401, "Invalid username or password")
\* the answer of the login handler when bcrypt.compare is false
InvalidPassword == JsonError(401, "Invalid username or password")

LoginSelect(r) ==
  /\ reqs[r].kind = "login" /\ reqs[r].pc = "select"
  /\ UNCHANGED <<users, nextId, nextSid, arrivals, now, finder>>
  /\ LET q == reqs[r]
         rows == ActiveByUsername(users, q.body.username)
     IN \E ok \in BOOLEAN :
          IF ~ok
          THEN Answer(r, q, JsonError(500, "Login failed due to server error"),
                      "store_error")
          ELSE IF rows = {}
          THEN Answer(r, q, UserNotFound, "no_user")
          ELSE \E user \in rows :
                 /\ reqs' = [reqs EXCEPT ![r].pc = "compare", ![r].user = user]
                 /\ UNCHANGED sessions

LoginCompare(r) ==
  /\ reqs[r].kind = "login" /\ reqs[r].pc = "compare"
  /\ UNCHANGED <<users, nextId, nextSid, arrivals, now, finder>>
  /\ LET q == reqs[r]
     IN IF ~bcryptCompare(q.body.password, q.user.password)
        THEN Answer(r, q, InvalidPassword, "bad_password")
        ELSE /\ reqs' = [reqs EXCEPT ![r].pc = "update"]
             /\ UNCHANGED sessions

\* (the UPDATE without its WHERE clause)
TouchEveryLastLogin(table, id, t) == {[a EXCEPT !.last_login = t] : a \in table}

\* UPDATE users SET last_login = NOW() WHERE id = $1
TouchLastLogin(table, id, t) ==
  {IF a.id = id THEN [a EXCEPT !.last_login = t] ELSE a : a \in table}

\* what the login handler does when the UPDATE of last_login rejects: the
\* await throws into the handler's catch
LoginUpdateFailed(r, q) ==
  /\ Answer(r, q, JsonError(500, "Login failed due to server error"),
            "update_failed")
  /\ UNCHANGED users

LoginUpdate(r) ==
  /\ reqs[r].kind = "login" /\ reqs[r].pc = "update"
  /\ UNCHANGED <<nextId, nextSid, arrivals, now, finder>>
  /\ LET q == reqs[r]
         session == [userId |-> q.user.id, username |-> q.user.username,
                     loginTime |-> now]
     IN \E ok \in BOOLEAN :
          IF ~ok
          THEN LoginUpdateFailed(r, q)
          ELSE /\ users' = TouchLastLogin(users, q.user.id, now)
               /\ Answer(r, [q EXCEPT !.session = session],
                    [JsonUser(200, "Login successful", q.user)
                       EXCEPT !.lastLogin = q.user.last_login],
                    "ok")

(* ------------------------------- logout ------------------------------- *)
\* the middleware loads the session; the store calls back on a later turn
\* of the event loop, and then the handler runs
LogoutBegin(r, cookie) ==
  /\ CanArrive(r, cookie)
  /\ Arrived(r, cookie, [Arrive(r, "logout", NoBody, cookie) EXCEPT !.pc = "destroy"],
             StoreAfterGet(sessions, cookie, now))

\* req.session.destroy: the request loses its session, the store the entry
LogoutDestroy(r) ==
  /\ reqs[r].kind = "logout" /\ reqs[r].pc = "destroy"
  /\ UNCHANGED <<users, nextId, nextSid, arrivals, now, finder>>
  /\ LET q == [reqs[r] EXCEPT !.hasSession = FALSE]
     IN /\ reqs' = [reqs EXCEPT ![r] =
                      Respond(q, [NoRes EXCEPT !.status = 200,
                                    !.message = "Logged out successfully"],
                              "ok")]
        /\ sessions' = EndResponse(StoreDestroy(sessions, q.sessionID), q, now)

(* ------------------------------- profile ------------------------------ *)
ProfileBegin(r, cookie) ==
  /\ CanArrive(r, cookie)
  /\ LET q == Arrive(r, "profile", NoBody, cookie)
         store == StoreAfterGet(sessions, cookie, now)
     IN IF q.session.userId = 0
        THEN Arrived(r, cookie,
               Respond(q, JsonError(401, "Authentication required"),
                       IF cookie \in DOMAIN sessions /\ q.sessionID # cookie
                       THEN "expired" ELSE "unauthenticated"),
               EndResponse(store, q, now))
        ELSE Arrived(r, cookie, [q EXCEPT !.pc = "select"], store)

\* (the profile lookup without its is_active condition)
AnyById(table, id) == {a \in table : a.id = id}

\* SELECT ... FROM users WHERE id = $1 AND is_active = true
ActiveById(table, id) == {a \in table : a.id = id /\ a.is_active}

ProfileSelect(r) ==
  /\ reqs[r].kind = "profile" /\ reqs[r].pc = "select"
  /\ UNCHANGED <<users, nextId, nextSid, arrivals, now, finder>>
  /\ LET q == reqs[r]
         rows == ActiveById(users, q.session.userId)
     IN \E ok \in BOOLEAN :
          IF ~ok
          THEN Answer(r, q, JsonError(500, "Failed to load profile"),
                      "store_error")
          ELSE IF rows = {}
          THEN Answer(r, q, JsonError(404, "User account not found"),
                      "not_found")
          ELSE \E user \in rows :
                 Answer(r, q,
                   [JsonUser(200, "", user)
                      EXCEPT !.lastLogin = user.last_login,
                             !.total_users = Cardinality(users)],
                   "ok")

(* -------------------------------- clock ------------------------------- *)
Tick ==
  /\ now < MaxTime
  /\ now' = now + 1
  /\ UNCHANGED <<users, nextId, sessions, nextSid, arrivals, reqs, finder>>

(* ------------------------- findAvailablePort -------------------------- *)
\* first: the port startServer asked for; startPort: the argument of the
\* call now listening; result: what the promise resolved with; bound: the
\* call bound the port it resolved with
IdleFinder ==
  [pc |-> "idle", first |-> 0, startPort |-> 0, result |-> 0, bound |-> FALSE]

\* (a test that retries once more, at the bound itself)
RetryUpToBound(p) == p <= FALLBACK_PORT + RetryMargin

\* startPort < FALLBACK_PORT + 10
Retry(p) == p < FALLBACK_PORT + RetryMargin

\* startServer: await findAvailablePort(PORT); the call creates a server and
\* asks it to listen on startPort
FindAvailablePort(p) ==
  /\ finder.pc = "idle"
  /\ finder' = [finder EXCEPT !.pc = "listen", !.first = p, !.startPort = p]
  /\ UNCHANGED <<users, nextId, sessions, nextSid, arrivals, now, reqs>>

\* the listen callback: the port is bound, the server closed, the promise
\* resolved with the port
ListenOk ==
  /\ finder.pc = "listen"
  /\ finder' = [finder EXCEPT !.pc = "resolved", !.result = finder.startPort,
                              !.bound = TRUE]
  /\ UNCHANGED <<users, nextId, sessions, nextSid, arrivals, now, reqs>>

\* the error handler: the next port, or FALLBACK_PORT as it is
ListenError ==
  /\ finder.pc = "listen"
  /\ finder' = IF Retry(finder.startPort)
               THEN [finder EXCEPT !.startPort = finder.startPort + 1]
               ELSE [finder EXCEPT !.pc = "resolved",
                                   !.result = FALLBACK_PORT, !.bound = FALSE]
  /\ UNCHANGED <<users, nextId, sessions, nextSid, arrivals, now, reqs>>

(* -------------------------------- inputs ------------------------------ *)
User1 == <<"a", "b", "c">>
User1Caps == <<"A", "b", "C">>
User2 == <<"x", "x", "x">>
Mail1 == <<"a", "@", "x", ".", "c">>
Mail2 == <<"b", "@", "x", ".", "c">>
Pass1 == <<"a", "b", "c", "a", "b", "c">>
Pass2 == <<"x", "x", "x", "x", "x", "x">>

Body(u, e, p) == [username |-> u, email |-> e, password |-> p]

Cookies == 0..MaxSessionArrivals

Init ==
  /\ users = {}
  /\ nextId = 1
  /\ sessions = << >>
  /\ nextSid = 1
  /\ arrivals = 0
  /\ now = 0
  /\ reqs = [r \in Slots |-> IdleReq]
  /\ finder = IdleFinder

(* ------------------- registrations racing one another ----------------- *)
\* (clients that hold no cookie: the users table is all these handlers share)
RegisterBodies ==
  { Body(User1, Mail1, Pass1), Body(User1Caps, Mail2, Pass1),
    Body(User2, Mail2, Pass2), Body(User2, Undefined, Pass2) }

NextRegister ==
  \/ \E r \in Slots, b \in RegisterBodies :
       arrivals < MaxArrivals /\ RegisterBegin(r, b, 0)
  \/ \E r \in Slots : RegisterSelect(r)
  \/ \E r \in Slots : RegisterHash(r)
  \/ \E r \in Slots : RegisterInsert(r)

SpecRegister == Init /\ [][NextRegister]_vars

(* ----------------------- registrations and logins --------------------- *)
LoginRegisterBodies == { Body(User1, Mail1, Pass1), Body(User2, Mail2, Pass2) }

LoginBodies ==
  { Body(User1, Undefined, Pass1), Body(User1Caps, Undefined, Pass1),
    Body(User1, Undefined, Pass2), Body(User1, Undefined, Undefined) }

NextLogin ==
  \/ \E r \in Slots, b \in LoginRegisterBodies :
       arrivals < MaxArrivals /\ RegisterBegin(r, b, 0)
  \/ \E r \in Slots : RegisterSelect(r)
  \/ \E r \in Slots : RegisterHash(r)
  \/ \E r \in Slots : RegisterInsert(r)
  \/ \E r \in Slots, b \in LoginBodies :
       arrivals < MaxArrivals /\ LoginBegin(r, b, 0)
  \/ \E r \in Slots : LoginSelect(r)
  \/ \E r \in Slots : LoginCompare(r)
  \/ \E r \in Slots : LoginUpdate(r)

SpecLogin == Init /\ [][NextLogin]_vars

(* ------------------------- sessions over time ------------------------- *)
\* the server starts on a database in which User1 registered during an
\* earlier run; the session store, kept in memory, starts empty
SeededUsers ==
  { [id |-> 1, username |-> toLowerCase(User1), email |-> toLowerCase(Mail1),
     password |-> bcryptHash(Pass1), last_login |-> Null, is_active |-> TRUE] }

InitSession ==
  /\ users = SeededUsers
  /\ nextId = Cardinality(SeededUsers) + 1
  /\ sessions = << >>
  /\ nextSid = 1
  /\ arrivals = 0
  /\ now = 0
  /\ reqs = [r \in Slots |-> IdleReq]
  /\ finder = IdleFinder

SessionLoginBodies ==
  { Body(User1Caps, Undefined, Pass1), Body(User1, Undefined, Pass2) }

NextSession ==
  \/ \E r \in Slots, b \in SessionLoginBodies, c \in Cookies :
       arrivals < MaxSessionArrivals /\ LoginBegin(r, b, c)
  \/ \E r \in Slots : LoginSelect(r)
  \/ \E r \in Slots : LoginCompare(r)
  \/ \E r \in Slots : LoginUpdate(r)
  \/ \E r \in Slots, c \in Cookies :
       arrivals < MaxSessionArrivals /\ LogoutBegin(r, c)
  \/ \E r \in Slots : LogoutDestroy(r)
  \/ \E r \in Slots, c \in Cookies :
       arrivals < MaxSessionArrivals /\ ProfileBegin(r, c)
  \/ \E r \in Slots : ProfileSelect(r)
  \/ Tick

SpecSession == InitSession /\ [][NextSession]_vars

(* ------------------- registration inputs of every shape --------------- *)
ValidationUsernames ==
  { Undefined, << >>, <<"a", "b">>, User1, Repeat("a", UsernameMax),
    Repeat("a", UsernameMax + 1) }
ValidationEmails ==
  { Undefined, << >>, Mail1, <<"a", "@", "x">>, <<"@", "x", ".", "c">>,
    <<"a", "@", ".", "c">>, <<"a", "@", "x", ".">>,
    <<"a", " ", "@", "x", ".", "c">>, <<"a", "@", "@", "x", ".", "c">>,
    <<"a", "@", "x", ".", "c", ".", "c">> }
ValidationPasswords ==
  { Undefined, << >>, <<"a", "b", "c", "a", "b">>, Pass1 }

ValidationBodies ==
  { Body(u, e, p) : u \in ValidationUsernames, e \in ValidationEmails,
                    p \in ValidationPasswords }

\* one client sending one registration after the other
NextValidate ==
  \/ \E b \in ValidationBodies :
       arrivals < MaxArrivals /\ RegisterBegin(1, b, 0)
  \/ RegisterSelect(1)
  \/ RegisterHash(1)
  \/ RegisterInsert(1)

SpecValidate == Init /\ [][NextValidate]_vars

(* ------------------------- deactivated accounts ----------------------- *)
\* is_active is written by nobody in server.js: an administrator sets it in
\* the database (UPDATE users SET is_active = false WHERE id = $1)
Deactivate(id) ==
  /\ \E a \in users : a.id = id /\ a.is_active
  /\ users' = {IF a.id = id THEN [a EXCEPT !.is_active = FALSE] ELSE a :
                 a \in users}
  /\ UNCHANGED <<nextId, sessions, nextSid, arrivals, now, reqs, finder>>

InactiveLoginBodies == { Body(User1Caps, Undefined, Pass1) }

NextInactive ==
  \/ \E r \in Slots, b \in InactiveLoginBodies, c \in Cookies :
       arrivals < MaxArrivals /\ LoginBegin(r, b, c)
  \/ \E r \in Slots : LoginSelect(r)
  \/ \E r \in Slots : LoginCompare(r)
  \/ \E r \in Slots : LoginUpdate(r)
  \/ \E r \in Slots, c \in Cookies :
       arrivals < MaxArrivals /\ ProfileBegin(r, c)
  \/ \E r \in Slots : ProfileSelect(r)
  \/ \E a \in users : Deactivate(a.id)

SpecInactive == InitSession /\ [][NextInactive]_vars

(* ------------- registrations and logins of clients with cookies ------- *)
\* (on the database in which User1 registered during an earlier run)
AccountRegisterBodies ==
  { Body(User2, Mail2, Pass2), Body(User1Caps, Mail2, Pass1),
    Body(User2, Undefined, Pass2) }

AccountLoginBodies ==
  { Body(User1, Undefined, Pass1), Body(User2, Undefined, Pass2),
    Body(User1, Undefined, Pass2), Body(<< >>, Undefined, Pass1),
    Body(User1, Undefined, Undefined) }

NextAccount ==
  \/ \E r \in Slots, b \in AccountRegisterBodies, c \in Cookies :
       arrivals < MaxAccountArrivals /\ RegisterBegin(r, b, c)
  \/ \E r \in Slots : RegisterSelect(r)
  \/ \E r \in Slots : RegisterHash(r)
  \/ \E r \in Slots : RegisterInsert(r)
  \/ \E r \in Slots, b \in AccountLoginBodies, c \in Cookies :
       arrivals < MaxAccountArrivals /\ LoginBegin(r, b, c)
  \/ \E r \in Slots : LoginSelect(r)
  \/ \E r \in Slots : LoginCompare(r)
  \/ \E r \in Slots : LoginUpdate(r)

SpecAccount == InitSession /\ [][NextAccount]_vars

(* ------------------- registrations in every letter case --------------- *)
Mail1Caps == <<"A", "@", "X", ".", "c">>

CaseBodies ==
  { Body(User1Caps, Mail1Caps, Pass1), Body(User1, Mail2, Pass1),
    Body(User2, Mail1, Pass2) }

NextCase ==
  \/ \E r \in Slots, b \in CaseBodies :
       arrivals < MaxArrivals /\ RegisterBegin(r, b, 0)
  \/ \E r \in Slots : RegisterSelect(r)
  \/ \E r \in Slots : RegisterHash(r)
  \/ \E r \in Slots : RegisterInsert(r)

SpecCase == Init /\ [][NextCase]_vars

(* ------------------ registrations of clients with cookies ------------- *)
SessionRegisterBodies ==
  { Body(User2, Mail2, Pass2), Body(User2, Undefined, Pass2) }

NextRegisterSession ==
  \/ \E r \in Slots, b \in SessionRegisterBodies, c \in Cookies :
       arrivals < MaxArrivals /\ RegisterBegin(r, b, c)
  \/ \E r \in Slots : RegisterSelect(r)
  \/ \E r \in Slots : RegisterHash(r)
  \/ \E r \in Slots : RegisterInsert(r)

SpecRegisterSession == Init /\ [][NextRegisterSession]_vars

(* --------------------------- logins and logouts ----------------------- *)
LogoutLoginBodies == { Body(User1, Undefined, Pass1) }

NextLogout ==
  \/ \E r \in Slots, b \in LogoutLoginBodies, c \in Cookies :
       arrivals < MaxArrivals /\ LoginBegin(r, b, c)
  \/ \E r \in Slots : LoginSelect(r)
  \/ \E r \in Slots : LoginCompare(r)
  \/ \E r \in Slots : LoginUpdate(r)
  \/ \E r \in Slots, c \in Cookies :
       arrivals < MaxArrivals /\ LogoutBegin(r, c)
  \/ \E r \in Slots : LogoutDestroy(r)

SpecLogout == InitSession /\ [][NextLogout]_vars

(* ---------------------------- server startup ------------------------- *)
\* the ports PORT can name, from the default to past the bound of the search
StartPorts == DefaultPort..(FALLBACK_PORT + RetryMargin + 1)

NextPort ==
  \/ \E p \in StartPorts : FindAvailablePort(p)
  \/ ListenOk
  \/ ListenError

SpecPort == Init /\ [][NextPort]_vars

\* a server asked to listen calls back or emits an error
SpecPortLive == SpecPort /\ WF_vars(ListenOk \/ ListenError)

(* ============================ properties ============================== *)
Done(r, kind) == reqs[r].kind = kind /\ reqs[r].pc = "done"

\* two requests were in flight at the same time
Overlap(r1, r2) == r1 \in reqs[r2].concurrent \/ r2 \in reqs[r1].concurrent

SameText(s, t) == toLowerCase(s) = toLowerCase(t)

\* two answered registrations that raced for one username (equal ignoring
\* case) with different emails, both valid, neither hit by a store failure,
\* and nobody else holding the username or either email
RacedForUsername(r1, r2) ==
  /\ r1 # r2 /\ Done(r1, "register") /\ Done(r2, "register")
  /\ Overlap(r1, r2)
  /\ RegisterValidation(reqs[r1].body) = ""
  /\ RegisterValidation(reqs[r2].body) = ""
  /\ SameText(reqs[r1].body.username, reqs[r2].body.username)
  /\ ~SameText(reqs[r1].body.email, reqs[r2].body.email)
  /\ reqs[r1].res.status # 500 /\ reqs[r2].res.status # 500
  /\ \A a \in users :
       (\/ SameText(a.username, reqs[r1].body.username)
        \/ SameText(a.email, reqs[r1].body.email)
        \/ SameText(a.email, reqs[r2].body.email))
       => a.id \in {reqs[r1].res.userId, reqs[r2].res.userId}

UsernameConflict(res) ==
  res.status = 400 /\ res.error = ConflictMessage("username")

\* C1: of two concurrent valid registrations with the same username (ignoring
\* case) and different emails, exactly one is answered 201 and the other is
\* answered with a conflict error that names the field "username".
C1_OneWinsOtherUsernameConflict ==
  \A r1, r2 \in Slots :
    RacedForUsername(r1, r2) =>
      \/ reqs[r1].res.status = 201 /\ UsernameConflict(reqs[r2].res)
      \/ reqs[r2].res.status = 201 /\ UsernameConflict(reqs[r1].res)

\* C2: no two rows of the users table have the same username or the same
\* email, compared ignoring case.
C2_UniqueIgnoringCase ==
  \A a, b \in users :
    a # b => ~SameText(a.username, b.username) /\ ~SameText(a.email, b.email)

\* a racing duplicate INSERT was rejected, and two accounts exist
C2_Witness ==
  /\ Cardinality(users) = 2
  /\ \E r \in Slots : Done(r, "register") /\ reqs[r].why = "conflict_insert"

\* C8: a registration rejected because its username or email is held by an
\* account is answered 400 with the name of the field that collided:
\* "username" when the username is taken, "email" when only the email is.
C8_ConflictNamesField ==
  \A r \in Slots :
    Done(r, "register")
    /\ reqs[r].why \in {"conflict_select", "conflict_insert"}
    => /\ reqs[r].res.status = 400
       /\ reqs[r].takenU => reqs[r].res.error = ConflictMessage("username")
       /\ ~reqs[r].takenU /\ reqs[r].takenE
            => reqs[r].res.error = ConflictMessage("email")

\* the four validation rules of a registration, each on its own
MissingField(b) == Falsy(b.username) \/ Falsy(b.email) \/ Falsy(b.password)
BadUsernameLength(b) ==
  ~(UsernameMin <= Len(b.username) /\ Len(b.username) <= UsernameMax)
BadEmailShape(b) == ~emailRegexTest(b.email)
BadPasswordLength(b) == ~(Len(b.password) >= PasswordMin)

ValidationError(r, message) ==
  /\ reqs[r].pc = "done" /\ reqs[r].why = "validation"
  /\ reqs[r].res = JsonError(400, message)

\* C7: a registration is answered with the error of the first rule it
\* fails, in the order presence, username length, email shape, password
\* length, and it reaches the store only when it fails none.
C7_FirstFailingRule ==
  \A r \in Slots :
    reqs[r].kind = "register" =>
      LET b == reqs[r].body IN
      IF MissingField(b)
      THEN ValidationError(r, "All fields are required")
      ELSE IF BadUsernameLength(b)
      THEN ValidationError(r, "Username must be between 3 and 50 characters")
      ELSE IF BadEmailShape(b)
      THEN ValidationError(r, "Please provide a valid email address")
      ELSE IF BadPasswordLength(b)
      THEN ValidationError(r, "Password must be at least 6 characters long")
      ELSE reqs[r].why # "validation"

\* a registration failing the last three rules is answered with the error
\* of the username length alone
C7_Witness ==
  \E r \in Slots :
    /\ Done(r, "register")
    /\ ~MissingField(reqs[r].body)
    /\ BadUsernameLength(reqs[r].body)
    /\ BadEmailShape(reqs[r].body)
    /\ BadPasswordLength(reqs[r].body)
    /\ reqs[r].res.error = "Username must be between 3 and 50 characters"

\* C3: a login for a username no active account has and a login with a
\* wrong password for an existing one get the same response.
C3_SameInvalidCredentials ==
  \A r1, r2 \in Slots :
    /\ Done(r1, "login") /\ reqs[r1].why = "no_user"
    /\ Done(r2, "login") /\ reqs[r2].why = "bad_password"
    => reqs[r1].res = reqs[r2].res

\* both kinds of failed login are on record: one found no account, one
\* found the account of its username and did not match its password
C3_Witness ==
  \E r1, r2 \in Slots :
    /\ Done(r1, "login") /\ reqs[r1].why = "no_user"
    /\ Done(r2, "login") /\ reqs[r2].why = "bad_password"
    /\ reqs[r2].res.status = 401
    /\ \E a \in users : SameText(a.username, reqs[r2].body.username)
                        /\ ~bcryptCompare(reqs[r2].body.password, a.password)

\* a login sent after a registration was answered 201, with the username of
\* the registration in any letter case and with its password
LoginAfterRegister(r1, r2) ==
  /\ Done(r1, "register") /\ reqs[r1].res.status = 201
  /\ Done(r2, "login") /\ r1 \in reqs[r2].before
  /\ SameText(reqs[r2].body.username, reqs[r1].body.username)
  /\ reqs[r2].body.password = reqs[r1].body.password

\* C4: a login that follows a successful registration with the same
\* username (any letter case) and password succeeds and returns the id the
\* registration returned, unless the store fails under it.
C4_RegisterThenLogin ==
  \A r1, r2 \in Slots :
    LoginAfterRegister(r1, r2) /\ reqs[r2].res.status # 500
    => reqs[r2].res.status = 200 /\ reqs[r2].res.userId = reqs[r1].res.userId

\* a login in other letter case than the registration before it succeeded
C4_Witness ==
  \E r1, r2 \in Slots :
    /\ LoginAfterRegister(r1, r2)
    /\ reqs[r2].body.username # reqs[r1].body.username
    /\ reqs[r2].res.status = 200

\* the session of request r is in the store and bound to account id
SessionBound(r, id) ==
  /\ reqs[r].sessionID \in DOMAIN sessions
  /\ sessions[reqs[r].sessionID].data.userId = id

\* C6: a login whose lookup and password verification succeeded and whose
\* update of last_login failed is answered with the success response, its
\* session bound to the account.
C6_LastLoginFailureSwallowed ==
  \A r \in Slots :
    Done(r, "login") /\ reqs[r].why = "update_failed"
    => /\ reqs[r].res.status = 200
       /\ \E a \in users : /\ SameText(a.username, reqs[r].body.username)
                           /\ reqs[r].res.userId = a.id
                           /\ SessionBound(r, a.id)

\* C5: a profile request sent after a logout of a session was answered, and
\* carrying the cookie of that session, is answered 401.
C5_ProfileAfterLogout ==
  \A r1, r2 \in Slots :
    /\ Done(r1, "logout") /\ reqs[r1].cookieId # 0
    /\ reqs[r1].sessionID = reqs[r1].cookieId
    /\ Done(r2, "profile") /\ reqs[r2].cookieId = reqs[r1].cookieId
    /\ r1 \in reqs[r2].before
    => reqs[r2].res.status = 401

\* slot r holds, after this step, a request answered in this step
Answered(r) ==
  /\ reqs'[r].pc = "done"
  /\ \/ InFlight(reqs[r])
     \/ [reqs'[r] EXCEPT !.before = {}, !.concurrent = {}]
          # [reqs[r] EXCEPT !.before = {}, !.concurrent = {}]

\* slot r takes, in this step, a request of the given kind
Arrives(r, kind) ==
  /\ ~InFlight(reqs[r])
  /\ reqs'[r].kind = kind
  /\ [reqs'[r] EXCEPT !.before = {}, !.concurrent = {}]
       # [reqs[r] EXCEPT !.before = {}, !.concurrent = {}]

\* C9: the expiry rolls. A request other than a logout that is answered
\* while the session it loaded is still in its TTL sets the expiry of that
\* session to now + TTL and leaves it valid; an expiry changes to nothing
\* but now + TTL; and a profile request whose cookie names a session whose
\* TTL has elapsed is answered as unauthenticated.
C9_RollingExpiry ==
  [][ /\ \A r \in Slots :
           /\ Answered(r) /\ reqs'[r].kind # "logout"
           /\ reqs'[r].sessionID = reqs'[r].cookieId
           /\ StoreHas(sessions, reqs'[r].cookieId, now)
           => /\ StoreHas(sessions', reqs'[r].cookieId, now)
              /\ sessions'[reqs'[r].cookieId].expires = now + TTL
      /\ \A s \in DOMAIN sessions \cap DOMAIN sessions' :
           sessions'[s].expires # sessions[s].expires
           => sessions'[s].expires = now + TTL
      /\ \A r \in Slots :
           /\ Arrives(r, "profile")
           /\ ~StoreHas(sessions, reqs'[r].cookieId, now)
           => reqs'[r].pc = "done" /\ reqs'[r].res.status = 401
    ]_vars

\* a session touched before its TTL had elapsed is valid past the expiry
\* it was created with
C9_Witness ==
  \E s \in DOMAIN sessions :
    /\ sessions[s].expires > sessions[s].data.loginTime + TTL
    /\ now >= sessions[s].data.loginTime + TTL
    /\ StoreHas(sessions, s, now)
    /\ \E r \in Slots : Done(r, "profile") /\ reqs[r].cookieId = s
                        /\ reqs[r].res.status = 200

\* C10: when a logout destroys its session after another request on that
\* session, in flight together with the logout, was answered (and wrote or
\* touched the session), the session is absent from the store.
C10_DestroyWinsOverEarlierTouch ==
  [][ \A r, r2 \in Slots :
        /\ reqs[r].kind = "logout" /\ reqs[r].pc = "destroy"
        /\ reqs'[r].pc = "done"
        /\ r2 # r /\ reqs[r2].pc = "done" /\ Overlap(r, r2)
        /\ reqs[r2].sessionID = reqs[r].sessionID
        => reqs[r].sessionID \notin DOMAIN sessions'
    ]_vars

\* a login that wrote the session and a logout of that session were in
\* flight together, both are answered, and the session is gone
C10_Witness ==
  \E r, r2 \in Slots :
    /\ Done(r, "logout") /\ Done(r2, "login") /\ reqs[r2].why = "ok"
    /\ Overlap(r, r2)
    /\ reqs[r2].sessionID = reqs[r].sessionID
    /\ reqs[r].sessionID = reqs[r].cookieId
    /\ reqs[r].sessionID \notin DOMAIN sessions

\* an answered logout in slot r destroyed session s, which is still absent
Destroyed(r, s) ==
  /\ Done(r, "logout") /\ reqs[r].sessionID = s /\ reqs[r].cookieId = s
  /\ s \notin DOMAIN sessions

\* the TTL of session s has elapsed
Expired(s) == s \in DOMAIN sessions /\ ~StoreHas(sessions, s, now)

\* after this step, token s resolves to an account
ActiveNext(s) ==
  /\ s \in DOMAIN sessions' /\ sessions'[s].expires > now'
  /\ sessions'[s].data.userId # 0

\* C11: a session token that a logout destroyed, or whose TTL elapsed, is
\* never made to resolve to an account again by any later step.
C11_NoWayBackToActive ==
  [][ \A s \in 1..(nextSid - 1) :
        (Expired(s) \/ \E r \in Slots : Destroyed(r, s)) => ~ActiveNext(s)
    ]_vars

\* no step of this kind creates a session or changes what one holds
NoSessionWritten ==
  \A s \in DOMAIN sessions' :
    s \in DOMAIN sessions /\ sessions'[s].data = sessions[s].data

\* C12: an inactive account is invisible to both lookups. A login lookup
\* made when every account of its username is inactive is answered with the
\* invalid-credentials 401 and writes no session; a profile lookup for a
\* session bound to an inactive account is answered 404 (a store failure,
\* answered 500, aside).
C12_InactiveInvisible ==
  [][ \A r \in Slots :
        /\ ( /\ reqs[r].kind = "login" /\ reqs[r].pc = "select"
             /\ reqs'[r].pc # "select" /\ reqs'[r].res.status # 500
             /\ \A a \in users :
                  SameText(a.username, reqs[r].body.username) => ~a.is_active
             => /\ reqs'[r].pc = "done"
                /\ reqs'[r].res = JsonError(401, "Invalid username or password")
                /\ NoSessionWritten )
        /\ ( /\ reqs[r].kind = "profile" /\ reqs[r].pc = "select"
             /\ reqs'[r].pc # "select" /\ reqs'[r].res.status # 500
             /\ \A a \in users : a.id = reqs[r].session.userId => ~a.is_active
             => /\ reqs'[r].pc = "done"
                /\ reqs'[r].res = JsonError(404, "User account not found") )
    ]_vars

\* an account was deactivated after a login bound a session to it: a login
\* with its username and password was answered 401 and a profile request on
\* the session 404
C12_Witness ==
  \E r1, r2 \in Slots, a \in users :
    /\ ~a.is_active
    /\ Done(r1, "login") /\ reqs[r1].why = "no_user"
    /\ SameText(a.username, reqs[r1].body.username)
    /\ a.password = bcryptHash(reqs[r1].body.password)
    /\ Done(r2, "profile") /\ reqs[r2].res.status = 404
    /\ reqs[r2].sessionID = reqs[r2].cookieId
    /\ SessionBound(r2, a.id)

\* C13: a successful register or login binds the account to a session token
\* that identified no session when the request arrived: it never keeps the
\* token of the cookie it came with.
C13_NewTokenOnSuccess ==
  \A r \in Slots :
    /\ reqs[r].pc = "done" /\ reqs[r].kind \in {"register", "login"}
    /\ reqs[r].why = "ok"
    => reqs[r].sessionID # reqs[r].cookieId

LoggedOut == [NoRes EXCEPT !.status = 200, !.message = "Logged out successfully"]

\* every session but s is, after this step, what it was before
OtherSessionsUnchanged(s) ==
  /\ DOMAIN sessions' \subseteq DOMAIN sessions
  /\ \A x \in DOMAIN sessions \ {s} :
       x \in DOMAIN sessions' /\ sessions'[x] = sessions[x]

\* C14: logout is idempotent. A logout is answered with the same 200
\* success whether or not its token names a session in the store; it leaves
\* the users table and every other session unchanged, and when its token
\* names no session (none sent, never stored, already destroyed) it leaves
\* the whole store unchanged.
C14_LogoutIdempotent ==
  [][ \A r \in Slots :
        /\ ( Arrives(r, "logout")
             => users' = users /\ OtherSessionsUnchanged(reqs'[r].cookieId) )
        /\ ( reqs[r].kind = "logout" /\ reqs[r].pc = "destroy"
             /\ reqs'[r].pc = "done"
             => /\ reqs'[r].res = LoggedOut
                /\ users' = users
                /\ OtherSessionsUnchanged(reqs[r].sessionID)
                /\ reqs[r].sessionID \notin DOMAIN sessions
                     => sessions' = sessions )
    ]_vars

\* a logout destroyed a session, and a later logout carrying the same
\* token, which names no session any more, got the same answer
C14_Witness ==
  \E r1, r2 \in Slots :
    /\ Done(r1, "logout") /\ Done(r2, "logout") /\ r1 \in reqs[r2].before
    /\ reqs[r1].cookieId # 0 /\ reqs[r1].sessionID = reqs[r1].cookieId
    /\ reqs[r2].cookieId = reqs[r1].cookieId
    /\ reqs[r2].sessionID # reqs[r2].cookieId
    /\ reqs[r2].res = reqs[r1].res /\ reqs[r2].res.status = 200

\* a body field that is absent or the empty string
MissingOrEmpty(v) == v = Undefined \/ Len(v) = 0

LoginLacksField(q) ==
  /\ q.kind = "login"
  /\ MissingOrEmpty(q.body.username) \/ MissingOrEmpty(q.body.password)

\* C15: a login whose username or password is missing or empty is answered
\* 400 in the step in which it arrives: it never waits for a lookup, a
\* password verification or an update, the users table keeps its last_login
\* values, and no session is written.
C15_MissingFieldsRejectedAtOnce ==
  [][ \A r \in Slots :
        /\ ( LoginLacksField(reqs'[r]) => reqs'[r].pc = "done" )
        /\ ( Arrives(r, "login") /\ LoginLacksField(reqs'[r])
             => /\ reqs'[r].res
                     = JsonError(400, "Username and password are required")
                /\ users' = users
                /\ NoSessionWritten )
    ]_vars

\* a login with an empty username, carrying the cookie of a session bound to
\* an account, was answered 400
C15_Witness ==
  \E r \in Slots :
    /\ Done(r, "login") /\ reqs[r].body.username = << >>
    /\ reqs[r].res.status = 400
    /\ reqs[r].cookieId # 0 /\ reqs[r].sessionID = reqs[r].cookieId
    /\ SessionBound(r, 1)

UpperCaseLetters == {"A", "B", "C", "X"}
NoUpperCase(s) == \A i \in 1..Len(s) : s[i] \notin UpperCaseLetters

\* C16: every username and email in the users table is in lowercase, and
\* the duplicate lookup of register compares in lowercase: a registration
\* sent after a successful one, with the same username or email in any
\* letter case, is turned down by the lookup (a store failure aside).
C16_StoredLowercase ==
  /\ \A a \in users : NoUpperCase(a.username) /\ NoUpperCase(a.email)
  /\ \A r1, r2 \in Slots :
       /\ Done(r1, "register") /\ reqs[r1].res.status = 201
       /\ Done(r2, "register") /\ r1 \in reqs[r2].before
       /\ reqs[r2].why # "validation" /\ reqs[r2].res.status # 500
       /\ \/ SameText(reqs[r1].body.username, reqs[r2].body.username)
          \/ SameText(reqs[r1].body.email, reqs[r2].body.email)
       => reqs[r2].why = "conflict_select"

\* a registration with capitals in username and email was stored in
\* lowercase, and a later one with the username in small letters was
\* turned down
C16_Witness ==
  \E r1, r2 \in Slots, a \in users :
    /\ Done(r1, "register") /\ reqs[r1].res.status = 201
    /\ reqs[r1].body.username = User1Caps /\ reqs[r1].body.email = Mail1Caps
    /\ a.id = reqs[r1].res.userId
    /\ a.username = User1 /\ a.email = Mail1
    /\ Done(r2, "register") /\ r1 \in reqs[r2].before
    /\ reqs[r2].body.username = User1 /\ reqs[r2].why = "conflict_select"

\* in this step request r, a register that inserted account id or a login
\* that found account id and whose password is the one the account holds,
\* is answered with success
SucceedsFor(r, id) ==
  /\ InFlight(reqs[r]) /\ reqs'[r].pc = "done" /\ reqs'[r].why = "ok"
  /\ reqs'[r].res.userId = id
  /\ \/ /\ reqs[r].kind = "register"
        /\ \A a \in users : a.id # id
        /\ \E a \in users' : a.id = id
     \/ /\ reqs[r].kind = "login"
        /\ reqs[r].user.id = id
        /\ reqs[r].user.password = bcryptHash(reqs[r].body.password)
        /\ \E a \in users : a.id = id /\ a.password = reqs[r].user.password

\* C17: a session that carries a userId carries the id and username of a
\* row of the users table, and the userId a session carries is set or
\* changed only by the step that answers a successful register or a
\* successful, password-verified login made on that session, to the id of
\* the account of that request.
C17_SessionUserIdProvenance ==
  /\ [](\A s \in DOMAIN sessions :
          sessions[s].data.userId # 0
          => \E a \in users : /\ a.id = sessions[s].data.userId
                              /\ a.username = sessions[s].data.username)
  /\ [][ \A s \in DOMAIN sessions' :
           (s \notin DOMAIN sessions \/ sessions'[s].data # sessions[s].data)
           => \E r \in Slots :
                /\ reqs[r].sessionID = s
                /\ SucceedsFor(r, sessions'[s].data.userId)
       ]_vars

\* a session bound to one account by a register was bound to another by a
\* later successful request carrying its cookie
C17_Witness ==
  \E r1, r2 \in Slots :
    /\ Done(r1, "register") /\ reqs[r1].why = "ok"
    /\ reqs[r2].pc = "done" /\ reqs[r2].why = "ok" /\ r1 \in reqs[r2].before
    /\ reqs[r2].cookieId = reqs[r1].sessionID
    /\ reqs[r2].sessionID = reqs[r2].cookieId
    /\ reqs[r2].res.userId # reqs[r1].res.userId
    /\ SessionBound(r2, reqs[r2].res.userId)

\* C18: the step that answers a register with an error (validation failure,
\* conflict or server error) leaves the users table as it was, creates no
\* session, and leaves the data of every stored session, the requester's
\* among them, as it was.
C18_RegisterErrorChangesNothing ==
  [][ \A r \in Slots :
        /\ Answered(r) /\ reqs'[r].kind = "register"
        /\ reqs'[r].res.status # 201
        => /\ reqs'[r].res.status \in {400, 500}
           /\ users' = users /\ nextId' = nextId
           /\ NoSessionWritten
           /\ StoreHas(sessions, reqs'[r].cookieId, now)
                => /\ reqs'[r].cookieId \in DOMAIN sessions'
                   /\ sessions'[reqs'[r].cookieId].data
                        = sessions[reqs'[r].cookieId].data
    ]_vars

\* registrations carrying the cookie of a session bound to an account were
\* turned down, one by the validation and one for a conflict, and the
\* session is still bound to the account
C18_Witness ==
  \E r1, r2 \in Slots :
    /\ Done(r1, "register") /\ reqs[r1].why = "validation"
    /\ Done(r2, "register")
    /\ reqs[r2].why \in {"conflict_select", "conflict_insert"}
    /\ reqs[r1].cookieId # 0 /\ reqs[r1].sessionID = reqs[r1].cookieId
    /\ reqs[r2].cookieId = reqs[r1].cookieId
    /\ reqs[r2].sessionID = reqs[r2].cookieId
    /\ SessionBound(r1, 1) /\ Cardinality(users) = 1

\* the row of account id in a users table
RowOf(table, id) == CHOOSE a \in table : a.id = id
Ids(table) == {a.id : a \in table}

\* C19: the step that answers a login with 400 or 401 leaves the users
\* table as it was and leaves every live session bound as it was; the
\* last_login of an account changes only in the step that answers a
\* successful login which found that account and whose password is the
\* account's; and a row is inserted with last_login null.
C19_FailedLoginChangesNothing ==
  [][ /\ \A r \in Slots :
           /\ Answered(r) /\ reqs'[r].kind = "login"
           /\ reqs'[r].res.status \in {400, 401}
           => /\ users' = users
              /\ NoSessionWritten
              /\ \A s \in DOMAIN sessions :
                   StoreHas(sessions, s, now)
                   => /\ s \in DOMAIN sessions'
                      /\ sessions'[s].data = sessions[s].data
      /\ \A id \in Ids(users) \cap Ids(users') :
           RowOf(users', id).last_login # RowOf(users, id).last_login
           => \E r \in Slots :
                /\ reqs[r].kind = "login" /\ SucceedsFor(r, id)
                /\ reqs'[r].res.status = 200
      /\ \A id \in Ids(users') \ Ids(users) :
           RowOf(users', id).last_login = Null
    ]_vars

\* two accounts exist; a login with a wrong password for the second, sent
\* on the session of the first, was answered 401; the second account has
\* never logged in and the session is still bound to the first
C19_Witness ==
  \E r \in Slots :
    /\ Done(r, "login") /\ reqs[r].why = "bad_password"
    /\ reqs[r].cookieId # 0 /\ reqs[r].sessionID = reqs[r].cookieId
    /\ \E a, b \in users :
         /\ a # b /\ SessionBound(r, a.id)
         /\ SameText(b.username, reqs[r].body.username)
         /\ b.last_login = Null

\* the port at which the search gives up
SearchBound == FALLBACK_PORT + RetryMargin

\* C20: findAvailablePort terminates. Every call that is listening is
\* followed by the resolution of the promise; a failed bind is retried with
\* startPort + 1, and only while startPort < FALLBACK_PORT + 10; the promise
\* resolves with a port p >= the port asked for that the call bound, or,
\* when the bind failed at a port that has reached the bound, with
\* FALLBACK_PORT, which no call bound.
C20_FindAvailablePortTerminates ==
  /\ (finder.pc = "listen") ~> (finder.pc = "resolved")
  /\ [][ finder.pc = "listen" /\ finder'.pc = "listen"
         => /\ finder'.startPort = finder.startPort + 1
            /\ finder.startPort < SearchBound
       ]_vars
  /\ [](finder.pc = "resolved"
        => \/ /\ finder.bound
              /\ finder.result >= finder.first
              /\ finder.result = finder.startPort
           \/ /\ ~finder.bound
              /\ finder.result = FALLBACK_PORT
              /\ finder.startPort
                   = IF finder.first >= SearchBound THEN finder.first
                     ELSE SearchBound)

\* the search started at the default port, found every port up to the bound
\* taken, and resolved with FALLBACK_PORT, a port it had found taken
C20_Witness ==
  /\ finder.pc = "resolved" /\ ~finder.bound
  /\ finder.first = DefaultPort
  /\ finder.result = FALLBACK_PORT
  /\ finder.first <= FALLBACK_PORT /\ FALLBACK_PORT < finder.startPort

====
